---------------------------- MODULE Spec2Model ----------------------------
(***************************************************************************)
(* A model of scene.py: the Lorenz dynamics function lorenz_system, the    *)
(* trajectory integrator ode_solution_points (a call of scipy's solve_ivp  *)
(* with t_eval = np.arange(0, time, dt)) and LorenzAttractor.construct,    *)
(* which builds the ensemble of initial states, integrates each of them    *)
(* and plays the curves.                                                   *)
(*                                                                         *)
(* Numbers.  Python computes in binary64; the model computes in exact      *)
(* rationals <<n, d>> (d > 0, lowest terms).  1e-5 is 1/100000, 0.01 is    *)
(* 1/100 and 8 / 3 is 8/3.  Rounding is therefore not modelled.            *)
(*                                                                         *)
(* solve_ivp.  scipy is not part of the repository.  Its documented loop   *)
(* is modelled: the solver advances t from t_span[0] by adaptive steps,    *)
(* after each accepted step the t_eval samples up to the new t are         *)
(* appended, the loop ends with status 0 at t_span[1] or with status -1    *)
(* when no step is possible, and in both cases an OdeResult is returned    *)
(* (no exception).  The numerical value of a sample is kept symbolic: the  *)
(* record [by, from, after] stands for the solution of y' = by(t, y),      *)
(* y(0) = from, evaluated at time after.                                   *)
(***************************************************************************)
EXTENDS Integers, Sequences, FiniteSets, TLC

VARIABLES
    lz,      \* the last call of lorenz_system: arguments and returned list
    ode,     \* the activation of ode_solution_points (and of solve_ivp in it)
    prev,    \* what the first of two equal calls of ode_solution_points handed back
    last,    \* what the latest call of ode_solution_points handed back
    pc,      \* position of LorenzAttractor.construct
    played,  \* what self.play / self.wait have shown so far, in order
    states,  \* construct's list `states`
    colors,  \* construct's list `colors`
    curves,  \* construct's VGroup `curves`
    k,       \* how many (state, color) pairs the for loop has taken from zip
    points   \* construct's local `points`

vars == <<lz, ode, prev, last, pc, played, states, colors, curves, k, points>>

---------------------------------------------------------------------------
(* Exact rational arithmetic.                                              *)

Abs(n) == IF n < 0 THEN -n ELSE n

RECURSIVE GCD(_, _)
GCD(a, b) == IF b = 0 THEN a ELSE GCD(b, a % b)

Norm(n, d) ==
    LET g == GCD(Abs(n), Abs(d))
        s == IF d < 0 THEN -1 ELSE 1
    IN  <<(s * n) \div g, (s * d) \div g>>

R(n) == <<n, 1>>
\* sums and comparisons go over the least common denominator and products
\* cancel crosswise first, which keeps the intermediate integers small
RAdd(a, b) ==
    LET g == GCD(a[2], b[2])
    IN  Norm(a[1] * (b[2] \div g) + b[1] * (a[2] \div g), (a[2] \div g) * b[2])
RSub(a, b) == RAdd(a, <<-b[1], b[2]>>)
RMul(a, b) ==
    LET g1 == GCD(Abs(a[1]), b[2])
        g2 == GCD(Abs(b[1]), a[2])
    IN  Norm((a[1] \div g1) * (b[1] \div g2), (a[2] \div g2) * (b[2] \div g1))
RDiv(a, b) == RMul(a, Norm(b[2], b[1]))
RLess(a, b) ==
    LET g == GCD(a[2], b[2])
    IN  a[1] * (b[2] \div g) < b[1] * (a[2] \div g)
RLeq(a, b) ==
    LET g == GCD(a[2], b[2])
    IN  a[1] * (b[2] \div g) <= b[1] * (a[2] \div g)
RMin(a, b) == IF RLeq(a, b) THEN a ELSE b
\* math.ceil of a rational: the least integer >= a
RCeil(a) == -((-a[1]) \div a[2])

---------------------------------------------------------------------------
(* lorenz_system                                                           *)

sigma_default == 10
rho_default == 28
beta_default == Norm(8, 3)

\* lorenz_system with the sign of y in dydt wrong
lorenz_system_sign(t, state, sigma, rho, beta) ==
    LET x == state[1]
        y == state[2]
        z == state[3]
    IN  <<RMul(sigma, RSub(y, x)),
          RAdd(RMul(x, RSub(rho, z)), y),
          RSub(RMul(x, y), RMul(beta, z))>>

lorenz_system(t, state, sigma, rho, beta) ==
    LET x == state[1]
        y == state[2]
        z == state[3]
        dxdt == RMul(sigma, RSub(y, x))
        dydt == RSub(RMul(x, RSub(rho, z)), y)
        dzdt == RSub(RMul(x, y), RMul(beta, z))
    IN  <<dxdt, dydt, dzdt>>

\* lorenz_system(t, state): the keyword parameters take their defaults
lorenz_system_defaults(t, state) ==
    lorenz_system(t, state, R(sigma_default), R(rho_default), beta_default)

\* arguments of the calls of lorenz_system that are explored
LzTimes == {R(0), R(7)}
LzCoords == {R(-1), R(0), Norm(1, 2), R(10)}
LzStates == {<<x, y, z>> : x \in LzCoords, y \in LzCoords, z \in LzCoords}
LzSigmas == {R(10), R(1)}
LzRhos == {R(28), R(0)}
LzBetas == {Norm(8, 3), R(-1)}

NoLorenzCall ==
    [called |-> FALSE, defaults |-> FALSE, t |-> R(0),
     state |-> <<R(0), R(0), R(0)>>,
     sigma |-> R(0), rho |-> R(0), beta |-> R(0),
     out |-> <<R(0), R(0), R(0)>>]

\* lorenz_system(t, state, sigma, rho, beta)
LorenzCall ==
    /\ ~lz.called
    /\ \E t \in LzTimes, state \in LzStates,
          sigma \in LzSigmas, rho \in LzRhos, beta \in LzBetas :
          lz' = [called |-> TRUE, defaults |-> FALSE, t |-> t, state |-> state,
                 sigma |-> sigma, rho |-> rho, beta |-> beta,
                 out |-> lorenz_system(t, state, sigma, rho, beta)]
    /\ UNCHANGED <<ode, prev, last, pc, played, states, colors, curves, k, points>>

\* lorenz_system(t, state): what solve_ivp calls
LorenzCallDefaults ==
    /\ ~lz.called
    /\ \E t \in LzTimes, state \in LzStates :
          lz' = [called |-> TRUE, defaults |-> TRUE, t |-> t, state |-> state,
                 sigma |-> R(0), rho |-> R(0), beta |-> R(0),
                 out |-> lorenz_system_defaults(t, state)]
    /\ UNCHANGED <<ode, prev, last, pc, played, states, colors, curves, k, points>>

\* the caller drops the returned list
LorenzDrop ==
    /\ lz.called
    /\ lz' = NoLorenzCall
    /\ UNCHANGED <<ode, prev, last, pc, played, states, colors, curves, k, points>>

---------------------------------------------------------------------------
(* ode_solution_points and the solve_ivp call in it                        *)

\* the default of the parameter dt: 0.01
dt_default == Norm(1, 100)

\* np.arange(start, stop, step), step > 0: ceil((stop - start) / step)
\* values start + i * step
arange(start, stop, step) ==
    LET n == RCeil(RDiv(RSub(stop, start), step))
    IN  [i \in 1..(IF n > 0 THEN n ELSE 0) |-> RAdd(start, RMul(R(i - 1), step))]

\* The dynamics functions handed to ode_solution_points: the repository's
\* lorenz_system, and "square" (y' = y * y in every component), a function
\* whose solution leaves every bound in finite time when a component of
\* the initial state is positive.
Functions == {"lorenz_system", "square"}

\* Whether the solution of y' = function(t, y), y(0) = state0 exists up to
\* and including time t.  The Lorenz flow is bounded for all time; a
\* component c > 0 of "square" is c / (1 - c * t), which exists for
\* c * t < 1 only.
Integrable(function, state0, t) ==
    \/ function = "lorenz_system"
    \/ \A c \in 1..3 :
          RLess(R(0), state0[c]) => RLess(RMul(state0[c], t), R(1))

\* The steps the adaptive solver may take: multiples of the least step.
\* Which of them it takes is its own choice and does not show in what
\* solve_ivp returns.
StepSizes == {Norm(1, 4), Norm(1, 2), R(1), R(5)}

\* the value no exact state is known for
NotExact == <<>>

\* The solution evaluated at time t: sol(t) of the solver's dense output.
\* At t = t_span[0] the dense output is the initial state itself.
Sample(function, state0, t) ==
    [by |-> function, from |-> state0, after |-> t,
     y |-> IF t = R(0) THEN state0 ELSE NotExact]

Idle ==
    [status |-> "idle", function |-> "", state0 |-> <<>>, time |-> R(0),
     dt |-> R(0), t_eval |-> <<>>, t |-> R(0), t_eval_i |-> 0, ys |-> <<>>]

\* ode_solution_points with t_eval = np.arange(dt, time, dt): the sample
\* at time 0 is left out
OdeEnter_from_dt(function, state0, time, dt) ==
    [status |-> "running", function |-> function, state0 |-> state0,
     time |-> time, dt |-> dt, t_eval |-> arange(dt, time, dt),
     t |-> R(0), t_eval_i |-> 0, ys |-> <<>>]

\* ode_solution_points with a list of samples that outlives the call: what
\* the call before handed back is still in it
OdeEnter_stale(function, state0, time, dt) ==
    [status |-> "running", function |-> function, state0 |-> state0,
     time |-> time, dt |-> dt, t_eval |-> arange(R(0), time, dt),
     t |-> R(0), t_eval_i |-> 0, ys |-> last.result]

\* ode_solution_points(function, state0, time, dt) up to the first step of
\* solve_ivp(function, t_span=(0, time), y0=state0,
\*           t_eval=np.arange(0, time, dt)): ts = [], ys = [], t_eval_i = 0
OdeEnter(function, state0, time, dt) ==
    [status |-> "running", function |-> function, state0 |-> state0,
     time |-> time, dt |-> dt, t_eval |-> arange(R(0), time, dt),
     t |-> R(0), t_eval_i |-> 0, ys |-> <<>>]

\* np.searchsorted(t_eval, t, side='right'): how many samples are <= t
SearchSortedRight(t_eval, t) ==
    Cardinality({i \in DOMAIN t_eval : RLeq(t_eval[i], t)})

\* where a step of size h from ode.t ends: the solver never passes t_span[1]
StepEnd(h) == RMin(RAdd(ode.t, h), ode.time)

\* solver.step() succeeds with a step of size h
CanStep(h) == Integrable(ode.function, ode.state0, StepEnd(h))

\* One turn of solve_ivp's loop with a successful solver.step(): the
\* samples of t_eval in (t_old, t] are evaluated and appended; the status
\* is 0 when t_span[1] is reached.
StepFrame(h) ==
    LET t2 == StepEnd(h)
        i2 == SearchSortedRight(ode.t_eval, t2)
    IN  [ode EXCEPT
            !.t = t2,
            !.t_eval_i = i2,
            !.ys = ode.ys \o [j \in 1..(i2 - ode.t_eval_i) |->
                        Sample(ode.function, ode.state0,
                               ode.t_eval[ode.t_eval_i + j])],
            !.status = IF t2 = ode.time THEN "finished" ELSE "running"]

SolverStep ==
    /\ ode.status = "running"
    /\ \E h \in StepSizes : CanStep(h) /\ ode' = StepFrame(h)
    /\ UNCHANGED <<lz, prev, last, pc, played, states, colors, curves, k, points>>

\* solver.step() fails (the step size falls below the least step): the
\* status is -1 and the loop is left with the samples appended so far.
SolverFail ==
    /\ ode.status = "running"
    /\ \A h \in StepSizes : ~CanStep(h)
    /\ ode' = [ode EXCEPT !.status = "failed"]
    /\ UNCHANGED <<lz, prev, last, pc, played, states, colors, curves, k, points>>

\* An exception is raised inside solve_ivp (by the library, the function
\* or the interpreter) and leaves ode_solution_points, which has no handler.
SolverRaise ==
    /\ ode.status = "running"
    /\ ode' = [ode EXCEPT !.status = "raised"]
    /\ UNCHANGED <<lz, prev, last, pc, played, states, colors, curves, k, points>>

\* solve_ivp has returned its OdeResult (status 0 or -1)
SolveIvpReturned == ode.status \in {"finished", "failed"}

\* `return solution.y.T`.  solution.status and solution.success are not
\* read.  When no sample was appended solution.y is the empty list, which
\* has no attribute T: the attribute access raises.
OdeRaises == ode.status = "raised" \/ (SolveIvpReturned /\ ode.ys = <<>>)
OdeReturns == SolveIvpReturned /\ ode.ys # <<>>
OdeResult == ode.ys

---------------------------------------------------------------------------
(* A caller of ode_solution_points other than the scene: any function,    *)
(* initial state, horizon and step.                                        *)

MaxTime == 3

OdeState0s ==
    {<<R(10), R(10), R(10)>>, <<R(1), R(1), R(1)>>,
     <<Norm(1, 2), R(0), R(-1)>>, <<R(0), R(0), R(0)>>}
OdeTimes == {R(n) : n \in 1..MaxTime}
OdeDts == {Norm(1, 2), Norm(3, 4), R(1), R(2)}

NoCall ==
    [called |-> FALSE, function |-> "", state0 |-> <<>>, time |-> R(0),
     dt |-> R(0), outcome |-> "", status |-> "", result |-> <<>>]

\* points = ode_solution_points(function, state0, time, dt): a first call
OdeCall ==
    /\ ode.status = "idle"
    /\ \E function \in Functions, state0 \in OdeState0s,
          time \in OdeTimes, dt \in OdeDts :
          ode' = OdeEnter(function, state0, time, dt)
    /\ prev' = NoCall
    /\ last' = NoCall
    /\ UNCHANGED <<lz, pc, played, states, colors, curves, k, points>>

\* the caller calls a second time, with the arguments of the call before,
\* and keeps what the call before handed back
OdeCallAgain ==
    /\ ode.status = "idle"
    /\ last.called
    /\ prev = NoCall
    /\ ode' = OdeEnter(last.function, last.state0, last.time, last.dt)
    /\ prev' = last
    /\ last' = NoCall
    /\ UNCHANGED <<lz, pc, played, states, colors, curves, k, points>>

\* what the call handed back to the caller: the returned array, or an
\* exception
CallRecord ==
    [called |-> TRUE, function |-> ode.function, state0 |-> ode.state0,
     time |-> ode.time, dt |-> ode.dt,
     outcome |-> IF OdeReturns THEN "returned" ELSE "raised",
     status |-> ode.status,
     result |-> IF OdeReturns THEN OdeResult ELSE <<>>]

\* the call ends: the caller holds the returned array, or sees the exception
OdeReturn ==
    /\ OdeReturns \/ OdeRaises
    /\ last' = CallRecord
    /\ ode' = Idle
    /\ UNCHANGED <<lz, prev, pc, played, states, colors, curves, k, points>>

---------------------------------------------------------------------------
(* LorenzAttractor.construct                                               *)

epsilon == Norm(1, 100000)
evolution_time == 15
n_points == 5

\* the ensemble with range(1, n_points + 1) in place of range(n_points)
EnsembleStates_from_1(eps, n) ==
    [i \in 1..n |-> <<R(10), R(10), RAdd(R(10), RMul(R(i), eps))>>]

\* [[10, 10, 10 + n * epsilon] for n in range(n_points)]
EnsembleStates(eps, n) ==
    [i \in 1..n |-> <<R(10), R(10), RAdd(R(10), RMul(R(i - 1), eps))>>]

\* color_gradient([BLUE_E, RED_E], n): n colours, the i-th the given share
\* of the way from BLUE_E to RED_E
color_gradient(n) ==
    [i \in 1..n |-> IF n = 1 THEN R(0) ELSE Norm(i - 1, n - 1)]

\* axes.c2p(*points.T): the samples in the coordinates of the axes
C2P(pts) == [space |-> "axes", samples |-> pts]

\* VMobject().set_points_smoothly(...): a smooth path through the points
SetPointsSmoothly(p) == [path |-> "smooth", through |-> p]

Shown(anim, of, index) == [anim |-> anim, of |-> of, index |-> index]

\* self.play(Write(lorenz_description))
WriteDescription ==
    /\ pc = "start"
    /\ played' = Append(played, Shown("Write", "lorenz_description", 0))
    /\ pc' = "equations"
    /\ UNCHANGED <<lz, ode, prev, last, states, colors, curves, k, points>>

\* self.play(Write(lorenz_equations))
WriteEquations ==
    /\ pc = "equations"
    /\ played' = Append(played, Shown("Write", "lorenz_equations", 0))
    /\ pc' = "axes"
    /\ UNCHANGED <<lz, ode, prev, last, states, colors, curves, k, points>>

\* self.play(ShowCreation(axes, run_time=2))
ShowAxes ==
    /\ pc = "axes"
    /\ played' = Append(played, Shown("ShowCreation", "axes", 0))
    /\ pc' = "ensemble"
    /\ UNCHANGED <<lz, ode, prev, last, states, colors, curves, k, points>>

\* states = [...]; colors = color_gradient(...); curves = VGroup()
BuildEnsemble ==
    /\ pc = "ensemble"
    /\ states' = EnsembleStates(epsilon, n_points)
    /\ colors' = color_gradient(Len(states'))
    /\ curves' = <<>>
    /\ k' = 0
    /\ pc' = "loop"
    /\ UNCHANGED <<lz, ode, prev, last, played, points>>

\* zip(states, colors) has a next pair
HasNext == k < Len(states) /\ k < Len(colors)

\* the call with a horizon that shrinks from one trajectory to the next
LoopArgs_shrinking ==
    [function |-> "lorenz_system", state0 |-> states[k + 1],
     time |-> R(evolution_time - k), dt |-> dt_default]

\* the arguments of ode_solution_points(lorenz_system, state, evolution_time)
\* for the pair the loop is at; dt is left to its default
LoopArgs ==
    [function |-> "lorenz_system", state0 |-> states[k + 1],
     time |-> R(evolution_time), dt |-> dt_default]

\* for state, color in zip(states, colors):
\*     points = ode_solution_points(lorenz_system, state, evolution_time)
LoopCall ==
    /\ pc = "loop"
    /\ HasNext
    /\ ode' = OdeEnter(LoopArgs.function, LoopArgs.state0,
                       LoopArgs.time, LoopArgs.dt)
    /\ pc' = "solving"
    /\ UNCHANGED <<lz, prev, last, played, states, colors, curves, k, points>>

\* curve = VMobject().set_points_smoothly(axes.c2p(*points.T))
\* curve.set_stroke(color, 1, opacity=0.25)
NewCurve(pts, color) ==
    [points |-> SetPointsSmoothly(C2P(pts)), color |-> color,
     width |-> R(1), opacity |-> Norm(1, 4)]

\* the loop body with one array of points shared by every curve: the
\* curves made before show the latest trajectory
CurvesAfter_shared(pts) ==
    Append([i \in DOMAIN curves |->
               [curves[i] EXCEPT !.points = SetPointsSmoothly(C2P(pts))]],
           NewCurve(pts, colors[k + 1]))

\* the VGroup after the rest of the loop body: curves.add(curve)
CurvesAfter(pts) == Append(curves, NewCurve(pts, colors[k + 1]))

\* the call returns: the rest of the loop body runs
LoopReceive ==
    /\ pc = "solving"
    /\ OdeReturns
    /\ points' = OdeResult
    /\ curves' = CurvesAfter(OdeResult)
    /\ k' = k + 1
    /\ ode' = Idle
    /\ pc' = "loop"
    /\ UNCHANGED <<lz, prev, last, played, states, colors>>

\* the call in a try block whose handler goes on with the next pair
AfterRaise_swallowed == [pc |-> "loop", k |-> k + 1]

\* where construct goes on when the call raises: nothing catches the
\* exception, construct is left
AfterRaise == [pc |-> "aborted", k |-> k]

\* the call raises
LoopRaise ==
    /\ pc = "solving"
    /\ OdeRaises
    /\ pc' = AfterRaise.pc
    /\ k' = AfterRaise.k
    /\ ode' = Idle
    /\ UNCHANGED <<lz, prev, last, played, states, colors, curves, points>>

\* curves.set_stroke(width=2, opacity=1), once zip is exhausted
SetStroke ==
    /\ pc = "loop"
    /\ ~HasNext
    /\ curves' = [i \in DOMAIN curves |->
                    [curves[i] EXCEPT !.width = R(2), !.opacity = R(1)]]
    /\ pc' = "play"
    /\ UNCHANGED <<lz, ode, prev, last, played, states, colors, k, points>>

\* self.play(*(ShowCreation(curve) for curve in curves),
\*           ShowCreation(python_code), run_time=evolution_time)
PlayCurves ==
    /\ pc = "play"
    /\ played' = played
                 \o [i \in DOMAIN curves |-> Shown("ShowCreation", "curve", i)]
                 \o <<Shown("ShowCreation", "python_code", 0)>>
    /\ pc' = "wait"
    /\ UNCHANGED <<lz, ode, prev, last, states, colors, curves, k, points>>

\* self.wait(5)
Wait ==
    /\ pc = "wait"
    /\ played' = Append(played, Shown("wait", "", 0))
    /\ pc' = "done"
    /\ UNCHANGED <<lz, ode, prev, last, states, colors, curves, k, points>>

---------------------------------------------------------------------------
(* Specifications                                                          *)

Init ==
    /\ lz = NoLorenzCall
    /\ ode = Idle
    /\ prev = NoCall
    /\ last = NoCall
    /\ pc = "start"
    /\ played = <<>>
    /\ states = <<>>
    /\ colors = <<>>
    /\ curves = <<>>
    /\ k = 0
    /\ points = <<>>

\* The scene.  SolverFail is no step of it: it is never enabled for
\* lorenz_system, whose solution exists for all time.
Next ==
    \/ WriteDescription
    \/ WriteEquations
    \/ ShowAxes
    \/ BuildEnsemble
    \/ LoopCall
    \/ SolverStep
    \/ SolverRaise
    \/ LoopReceive
    \/ LoopRaise
    \/ SetStroke
    \/ PlayCurves
    \/ Wait

Spec == Init /\ [][Next]_vars

\* Calls of ode_solution_points by any caller.
NextOde ==
    \/ OdeCall
    \/ OdeCallAgain
    \/ SolverStep
    \/ SolverFail
    \/ SolverRaise
    \/ OdeReturn

SpecOde == Init /\ [][NextOde]_vars

\* Calls of lorenz_system.
NextLorenz ==
    \/ LorenzCall
    \/ LorenzCallDefaults
    \/ LorenzDrop

SpecLorenz == Init /\ [][NextLorenz]_vars

---------------------------------------------------------------------------
(* Properties                                                              *)

\* the trajectory the j-th curve was made of
Traj(j) == curves[j].points.through.samples

\* a curve is among what has been played
CurvePlayed == \E i \in DOMAIN played : played[i].of = "curve"

\* C1: lorenz_system returns the three values sigma*(y - x),
\* x*(rho - z) - y and x*y - beta*z for its state and parameters, whatever
\* t is; with the parameters left out they are 10, 28 and 8/3.
C1_LorenzDerivative ==
    lz.called =>
        LET x == lz.state[1]
            y == lz.state[2]
            z == lz.state[3]
            sigma == IF lz.defaults THEN <<10, 1>> ELSE lz.sigma
            rho == IF lz.defaults THEN <<28, 1>> ELSE lz.rho
            beta == IF lz.defaults THEN <<8, 3>> ELSE lz.beta
        IN  /\ Len(lz.out) = 3
            /\ lz.out[1] = RSub(RMul(sigma, y), RMul(sigma, x))
            /\ lz.out[2] = RSub(RSub(RMul(x, rho), RMul(x, z)), y)
            /\ lz.out[3] = RSub(RMul(x, y), RMul(beta, z))

\* lorenz_system(7, [10, 1/2, -1]) has returned [-95, 579/2, 23/3]
C1_Witness ==
    /\ lz.called
    /\ lz.defaults
    /\ lz.t = <<7, 1>>
    /\ lz.state = <<<<10, 1>>, <<1, 2>>, <<-1, 1>>>>
    /\ lz.out = <<<<-95, 1>>, <<579, 2>>, <<23, 3>>>>

\* how many k = 0, 1, 2, ... have k * dt < time
SamplesBefore(time, dt) ==
    Cardinality({n \in 0..RCeil(RDiv(time, dt)) : RLess(RMul(R(n), dt), time)})

\* C2: the array ode_solution_points returns holds one state per sample
\* time k*dt < time, k = 0, 1, 2, ..., in increasing order of time and none
\* at time itself; for time = 15 and dt = 0.01 it holds 1500 states.
C2_OneStatePerSampleTime ==
    (last.called /\ last.outcome = "returned") =>
        /\ Len(last.result) = SamplesBefore(last.time, last.dt)
        /\ \A i \in DOMAIN last.result :
              /\ last.result[i].after = RMul(R(i - 1), last.dt)
              /\ RLess(last.result[i].after, last.time)
        /\ (last.time = <<15, 1>> /\ last.dt = <<1, 100>>) =>
              Len(last.result) = 1500

\* C3: the first state of the array ode_solution_points returns is state0.
C3_FirstIsState0 ==
    (last.called /\ last.outcome = "returned") =>
        /\ Len(last.result) >= 1
        /\ last.result[1].y = last.state0

\* a call with state0 = (10, 10, 10) has returned an array of several
\* states that starts with (10, 10, 10)
C3_Witness ==
    /\ last.called
    /\ last.outcome = "returned"
    /\ last.state0 = <<<<10, 1>>, <<10, 1>>, <<10, 1>>>>
    /\ Len(last.result) > 1
    /\ last.result[1].y = <<<<10, 1>>, <<10, 1>>, <<10, 1>>>>

\* C4: the ensemble has n_points states, the k-th (k = 0 .. n_points - 1)
\* being (10, 10, 10 + k*epsilon): x and y are 10 in all of them, the first
\* is (10, 10, 10) and z grows strictly with k.
C4_Ensemble ==
    pc \notin {"start", "equations", "axes", "ensemble"} =>
        /\ Len(states) = n_points
        /\ \A i \in 1..Len(states) :
              /\ states[i][1] = <<10, 1>>
              /\ states[i][2] = <<10, 1>>
              /\ states[i][3] = RAdd(<<10, 1>>, RMul(<<i - 1, 1>>, epsilon))
        /\ states[1] = <<<<10, 1>>, <<10, 1>>, <<10, 1>>>>
        /\ \A i, j \in 1..Len(states) :
              i < j => RLess(states[i][3], states[j][3])

\* the ensemble is built: five states, the last with z = 10.00004
C4_Witness ==
    /\ pc = "loop"
    /\ Len(states) = 5
    /\ states[5] = <<<<10, 1>>, <<10, 1>>, Norm(1000004, 100000)>>

\* C5: every call of the ensemble is made with lorenz_system, the horizon
\* evolution_time and the step 0.01 and the state the loop is at; the
\* curves are made one per state, in the order of the states; any two
\* trajectories have the same number of samples at the same times and
\* differ in the initial state only; after the loop there is one curve per
\* state.
C5_SharedCadence ==
    /\ ode.status # "idle" =>
          /\ ode.function = "lorenz_system"
          /\ ode.time = <<evolution_time, 1>>
          /\ ode.dt = <<1, 100>>
          /\ ode.state0 = states[Len(curves) + 1]
    /\ Len(curves) <= Len(states)
    /\ \A j \in 1..Len(curves) : \A m \in DOMAIN Traj(j) :
          /\ Traj(j)[m].by = "lorenz_system"
          /\ Traj(j)[m].from = states[j]
    /\ \A i, j \in 1..Len(curves) :
          /\ Len(Traj(i)) = Len(Traj(j))
          /\ \A m \in DOMAIN Traj(i) : Traj(i)[m].after = Traj(j)[m].after
    /\ pc \in {"play", "wait", "done"} => Len(curves) = Len(states)

\* construct is done: five curves of 1500 samples each, the first and the
\* last from different initial states
C5_Witness ==
    /\ pc = "done"
    /\ Len(curves) = 5
    /\ Len(Traj(1)) = 1500
    /\ Len(Traj(5)) = 1500
    /\ Traj(1)[1500].after = <<1499, 100>>
    /\ Traj(1)[1].from # Traj(5)[1].from

C7_FailureIsSurfaced ==
    (last.called /\ last.status = "failed") => last.outcome = "raised"

C9_NoSharedState ==
    [][/\ pc \in {"loop", "solving"} => (states' = states /\ colors' = colors)
       /\ Len(curves) <= Len(curves')
       /\ \A j \in 1..Len(curves) : curves'[j].points = curves[j].points
       /\ \A j \in 1..Len(curves') : \A m \in DOMAIN Traj(j)' :
             /\ Traj(j)'[m].from = states'[j]
             /\ Traj(j)'[m].after = Norm(m - 1, 100)
      ]_vars

\* the third trajectory is being computed while two curves exist, each
\* from its own initial state
C9_Witness ==
    /\ pc = "solving"
    /\ Len(curves) = 2
    /\ Traj(1)[2].from = states[1]
    /\ Traj(2)[2].from = states[2]
    /\ Traj(1) # Traj(2)

====
